---------------------------- MODULE Spec2Model ----------------------------
(***************************************************************************)
(* Model of run_strategy (src/main.py), the trading loop of the BTC/USD    *)
(* bot: one action per kind of loop iteration.                             *)
(*                                                                         *)
(* Prices are integer ticks.  The fractional configuration values are kept *)
(* as exact ratios: RISK_REWARD = 5/2, SL_ATR_BUFFER = 1/10,               *)
(* MIN_BODY_PCT = 1/5, VOL_MULT = 21/20.  A comparison of the source such  *)
(* as  price >= entry + last_risk * RISK_REWARD  is evaluated after        *)
(* multiplying both sides by the denominator.                              *)
(*                                                                         *)
(* The market data provider and the brokerage are the environment: what a  *)
(* call returns (bars, quote, fill, failure) is an input of the iteration, *)
(* drawn from a finite set.  The brokerage's own position is the variable  *)
(* broker.                                                                 *)
(*                                                                         *)
(* Left out, because nothing the loop decides reads them: the take-profit  *)
(* levels (lines 257, 259: printed and mailed only), get_account_info      *)
(* (lines 203, 261: printed only, with its reset e-mail) and the sleeps.   *)
(* Of the e-mails, those of place_order are recorded in ev.emails.         *)
(***************************************************************************)
EXTENDS Integers, FiniteSets

\* ------------------------------------------------------------ CONFIG
MAX_TRADES_PER_DAY == 10
COOLDOWN_BARS == 10
RISK_REWARD_NUM == 5
RISK_REWARD_DEN == 2
SL_ATR_BUFFER_NUM == 1
SL_ATR_BUFFER_DEN == 10
MIN_BODY_PCT_NUM == 1
MIN_BODY_PCT_DEN == 5
VOL_MULT_NUM == 21
VOL_MULT_DEN == 20
USE_BODY_FILTER == FALSE
USE_VOLUME_FILTER == FALSE
USE_EMA_FILTER == TRUE
MIN_LTF_BARS == 50
MIN_HTF_BARS == 10

\* ------------------------------------------------------------ bounds
\* Days are 0..MaxDay.  Day 0 of the full-day specification has the bars
\* 0..MaxSlot; its later days, and every day of the two short specifications,
\* have the bars 0..MaxSlotShort.
MaxDay == 1
MaxSlot == 100
MaxSlotShort == 2
\* The brokerage rejects an order that would take the position past MaxLots lots.
MaxLots == 1

\* ------------------------------------------------------------ values
\* None of the source: a timestamp, a date, a risk distance that is not set.
NoDay == -1
NoTime == [day |-> NoDay, slot |-> NoDay]
NoRisk == -1000

\* bar_time.date() (line 219)
Date(t) == t.day

\* The failure value of get_latest_quote (line 113).
FailedQuote == [bid |-> 0, ask |-> 0]

\* Stands in ev for the quote of an iteration that did not read it.
NoQuote == [bid |-> NoDay, ask |-> NoDay]

Abs(x) == IF x < 0 THEN -x ELSE x

\* ------------------------------------------------------------ inputs
\* What one fetch of both bar series gives the loop (lines 207-208, 229-252):
\* the latest entry-timeframe bar with the indicator values pandas computed
\* for it, and the two latest higher-timeframe bars.
MkBar(close, ema_f, vwap_val, htf_close, htf_low_prev, htf_high_prev) ==
    [open |-> 100, close |-> close, high |-> 112, low |-> 92,
     vol |-> 20, vol_prev |-> 20,
     ema_f |-> ema_f, ema_s |-> 100, vwap |-> vwap_val, atr |-> 10,
     htf_open |-> 100, htf_close |-> htf_close,
     htf_low_prev |-> htf_low_prev, htf_high_prev |-> htf_high_prev]

\* Bars with a full long or short signal whose previous higher-timeframe
\* low is not below the close, or whose previous high is not above it.
DegenerateBars ==
    {MkBar(102, 101, 95, 101, 103, 104), MkBar(102, 101, 95, 101, 105, 106),
     MkBar(98, 99, 105, 99, 96, 97), MkBar(98, 99, 105, 99, 94, 95)}

\* Every combination of candle direction, trend and higher-timeframe bias.
SignalBars ==
    { MkBar(c, e, v, h, 100, 100) :
        c \in {98, 100, 102}, e \in {99, 101}, v \in {95, 105}, h \in {99, 100, 101} }
    \cup DegenerateBars

\* A bar on which every long condition holds, one on which every short
\* condition holds, and one on which neither direction has a signal.
BullBar == MkBar(102, 101, 95, 101, 100, 100)
BearBar == MkBar(98, 99, 105, 99, 100, 100)
FlatBar == MkBar(100, 101, 95, 100, 100, 100)
CoarseBars == {BullBar, BearBar, FlatBar}

\* Quotes: ask = bid + 1, and the failure value.
MkQuote(bid) == [bid |-> bid, ask |-> bid + 1]
CoarseQuotes == {FailedQuote, MkQuote(90), MkQuote(100)}
DayQuotes == {MkQuote(90), MkQuote(100)}
ExitQuotes == {FailedQuote} \cup { MkQuote(p) : p \in 90..110 }

\* The average entry price the brokerage reports after a fill.
CoarseFills == {100}
ExitFills == {100, 101}

\* The ask of the quote place_order fetches for itself (line 177): a market
\* ask, or the failure value's.
MarketAsks == {MkQuote(100).ask}
PlaceAsks == {FailedQuote.ask} \cup MarketAsks

\* Lengths of the two fetched series; 0 stands for get_bars returning None.
LtfLens == {0, 49, 50}
HtfLens == {0, 9, 10}

\* What one pair of fetches returns: the lengths of the two series.
AllFetches == LtfLens \X HtfLens
CoarseFetches == {<<0, 0>>, <<50, 10>>}

\* The exceptions that reach the handler of the loop (line 314) are raised by
\* pandas and by the formatting of the status report.
Raised == {"KeyError", "IndexError", "ValueError", "TypeError"}

\* A specification's input sets and horizon; early tells whether an exception
\* can be raised before line 217, after it, or both.
DayProfile == [bars |-> CoarseBars, quotes |-> DayQuotes, fills |-> CoarseFills,
               maxSlot |-> MaxSlot, fetches |-> CoarseFetches,
               asks |-> MarketAsks, early |-> {FALSE}]
SignalProfile == [bars |-> SignalBars, quotes |-> CoarseQuotes, fills |-> CoarseFills,
                  maxSlot |-> MaxSlotShort, fetches |-> AllFetches,
                  asks |-> PlaceAsks, early |-> BOOLEAN]
ExitProfile == [bars |-> CoarseBars, quotes |-> ExitQuotes, fills |-> ExitFills,
                maxSlot |-> MaxSlotShort, fetches |-> AllFetches,
                asks |-> PlaceAsks, early |-> BOOLEAN]

\* ------------------------------------------------------------ signal evaluator
\* Mutant of Insufficient: only the entry-timeframe series is checked.
InsufficientLtfOnly(ltfLen, htfLen) == ltfLen = 0 \/ ltfLen < MIN_LTF_BARS

\* line 209
Insufficient(ltfLen, htfLen) ==
    ltfLen = 0 \/ htfLen = 0 \/ ltfLen < MIN_LTF_BARS \/ htfLen < MIN_HTF_BARS

\* Mutant of IsSameBar: the loop forgets to skip a bar it has processed.
IsSameBarNever(last, bar_time) == FALSE

\* line 214
IsSameBar(last, bar_time) == last = bar_time

\* Mutant of IsNewDay: the timestamp is compared instead of its date, so
\* every new bar counts as a new day.
IsNewDayAlways(day, bar_time) == TRUE

\* line 219
IsNewDay(day, bar_time) == day # Date(bar_time)

\* line 241:  body_pct >= MIN_BODY_PCT  with body_pct = |close-open| / (high-low+1e-8);
\* on integer ticks the epsilon makes the comparison strict.
BodyOk(b) ==
    MIN_BODY_PCT_DEN * Abs(b.close - b.open) > MIN_BODY_PCT_NUM * (b.high - b.low)

\* line 242
Bullish(b) == b.close > b.open /\ (BodyOk(b) \/ ~USE_BODY_FILTER)

\* line 243
Bearish(b) == b.close < b.open /\ (BodyOk(b) \/ ~USE_BODY_FILTER)

\* line 244
VolOk(b) == VOL_MULT_DEN * b.vol >= VOL_MULT_NUM * b.vol_prev \/ ~USE_VOLUME_FILTER

\* Mutant of TrendUp: either condition is enough.
TrendUpEither(b) == (~USE_EMA_FILTER) \/ (b.ema_f > b.ema_s \/ b.close > b.vwap)

\* line 246
TrendUp(b) == (~USE_EMA_FILTER) \/ (b.ema_f > b.ema_s /\ b.close > b.vwap)

\* line 247
TrendDown(b) == (~USE_EMA_FILTER) \/ (b.ema_f < b.ema_s /\ b.close < b.vwap)

\* Mutant of HtfBull: a flat higher-timeframe bar counts as bullish.
HtfBullOrFlat(b) == b.htf_close >= b.htf_open

\* line 249
HtfBull(b) == b.htf_close > b.htf_open

\* line 250
HtfBear(b) == b.htf_close < b.htf_open

\* line 220
TradesAfterReset(newDay, tt) == IF newDay THEN 0 ELSE tt

\* Mutant of CooldownAfterReset: the new day leaves the cooldown running.
CooldownKeptOverReset(newDay, cd) == cd

\* line 222
CooldownAfterReset(newDay, cd) == IF newDay THEN 0 ELSE cd

\* Mutant of CaughtByLoop: the handler catches the brokerage's errors only.
CaughtByLoopBrokerageOnly(exc) == exc = "APIError"

\* line 314: the handler of the loop catches the class Exception, which every
\* exception in Raised derives from.
ExceptionSubclasses ==
    {"KeyError", "IndexError", "ValueError", "TypeError", "APIError", "OSError"}
CaughtByLoop(exc) == exc \in ExceptionSubclasses

\* Mutant of CanEnter: the daily cap is off by one.
CanEnterOffByOne(cd, tt) == cd = 0 /\ tt <= MAX_TRADES_PER_DAY

\* line 254
CanEnter(cd, tt) == cd = 0 /\ tt < MAX_TRADES_PER_DAY

\* line 256 (atr is a multiple of SL_ATR_BUFFER_DEN ticks, so the division is exact)
SlLong(b) == b.htf_low_prev - (b.atr * SL_ATR_BUFFER_NUM) \div SL_ATR_BUFFER_DEN

\* line 258
SlShort(b) == b.htf_high_prev + (b.atr * SL_ATR_BUFFER_NUM) \div SL_ATR_BUFFER_DEN

\* line 273
LongSignal(b, cd, tt, inTrade) ==
    CanEnter(cd, tt) /\ HtfBull(b) /\ TrendUp(b) /\ Bullish(b) /\ VolOk(b) /\ ~inTrade

\* line 283 (the condition of the elif alone)
ShortSignal(b, cd, tt, inTrade) ==
    CanEnter(cd, tt) /\ HtfBear(b) /\ TrendDown(b) /\ Bearish(b) /\ VolOk(b) /\ ~inTrade

\* lines 281, 291
RiskOf(side, b) == IF side = "BUY" THEN b.close - SlLong(b) ELSE SlShort(b) - b.close

\* ------------------------------------------------------------ position tracker
\* Mutant of ExitPrice: the entry side of the quote is used for the exit.
ExitPriceEntrySide(signal, quote) == IF signal = "BUY" THEN quote.ask ELSE quote.bid

\* line 297
ExitPrice(signal, quote) == IF signal = "BUY" THEN quote.bid ELSE quote.ask

\* lines 298-299
StopHit(signal, price, entry, risk) ==
    \/ signal = "BUY" /\ price <= entry - risk
    \/ signal = "SELL" /\ price >= entry + risk

\* lines 303-304 (both sides times RISK_REWARD_DEN)
TargetHit(signal, price, entry, risk) ==
    \/ signal = "BUY"
       /\ RISK_REWARD_DEN * price >= RISK_REWARD_DEN * entry + risk * RISK_REWARD_NUM
    \/ signal = "SELL"
       /\ RISK_REWARD_DEN * price <= RISK_REWARD_DEN * entry - risk * RISK_REWARD_NUM

\* Mutant of CooldownTick: the cooldown runs down two bars at a time.
CooldownTickTwice(cd) == IF cd > 1 THEN cd - 2 ELSE 0

\* lines 311-312
CooldownTick(cd) == IF cd > 0 THEN cd - 1 ELSE cd

\* ------------------------------------------------------------ brokerage
\* The brokerage's position: qty in lots (positive long, negative short, 0
\* none) and the average entry price it reports (0 when there is none).
NoPosition == [qty |-> 0, entry |-> 0]

Delta(side) == IF side = "BUY" THEN 1 ELSE -1

\* What happens to one call of place_order: it is not made, or it fetches a
\* quote with the ask `ask` and the brokerage, if asked, rejects the order (or
\* is unreachable) or fills it at an average entry price.
NoOrder == [kind |-> "none", fill |-> 0, ask |-> NoDay]
OrderOutcomes(take, fills, asks) ==
    IF take
    THEN { [kind |-> "rejected", fill |-> 0, ask |-> a] : a \in asks }
         \cup { [kind |-> "filled", fill |-> f, ask |-> a] : f \in fills, a \in asks }
    ELSE {NoOrder}

\* Mutant of Submitted: the quote is not looked at before the order is sent.
SubmittedBlind(o) == o.kind # "none"

\* place_order reached submit_order: the quote was not the failure value
\* (lines 178-179).
Submitted(o) == o.kind # "none" /\ ~(o.ask = 0)

\* trading_client.submit_order (line 184) was called and accepted the order.
Accepted(brk, side, o) ==
    Submitted(o) /\ o.kind = "filled" /\ Abs(brk.qty + Delta(side)) <= MaxLots

\* place_order (lines 176-190): its first result, success.
PlaceOrderSuccess(brk, side, o) == Accepted(brk, side, o)

\* The notifications place_order sends (line 186; the except branch of lines
\* 188-190 prints and sends none).
OrderEmails(brk, side, o) ==
    IF PlaceOrderSuccess(brk, side, o) THEN {"TRADE OPENED"} ELSE {}

\* The brokerage's position after the call.
BrokerAfterOrder(brk, side, o) ==
    IF Accepted(brk, side, o)
    THEN LET q == brk.qty + Delta(side)
         IN  [qty |-> q, entry |-> IF q = 0 THEN 0 ELSE o.fill]
    ELSE brk

\* ------------------------------------------------------------ state
VARIABLES
    trades_today,    \* line 194
    last_trade_day,  \* line 195
    cooldown,        \* line 196
    last_bar_time,   \* line 197
    in_trade,        \* line 198
    last_signal,     \* line 199
    last_risk,       \* line 200
    broker,          \* the position held at the brokerage
    ev,              \* what the last iteration of the loop did
    bars_since,      \* new bars processed since the day's last successful order,
                     \* counted up to COOLDOWN_BARS (also: no order yet that day)
    running          \* the loop of line 205 has not been left

vars == <<trades_today, last_trade_day, cooldown, last_bar_time, in_trade,
          last_signal, last_risk, broker, ev, bars_since, running>>

\* The record of an iteration that got no further than its fetch.
\* ev.bar_time is the fetched latest bar's timestamp; cdBefore and ttBefore are
\* cooldown and trades_today when the iteration began, cd, tt and inTrade their
\* values at line 254, cdSet is cooldown after the if / elif (line 292).
\* lens is what the two fetches returned, placeAsk the ask place_order read,
\* emails the notifications it sent, tracker what the tracker met.
Idle(kind, bar_time, quote) ==
    [kind |-> kind, bar_time |-> bar_time, buy |-> FALSE, sell |-> FALSE,
     submitted |-> FALSE, success |-> FALSE, posRead |-> FALSE, entry |-> 0,
     closeReq |-> FALSE, cdBefore |-> 0, ttBefore |-> 0, cd |-> 0, tt |-> 0,
     cdSet |-> 0, inTrade |-> FALSE, newDay |-> FALSE, bar |-> FlatBar,
     quote |-> quote, lens |-> <<0, 0>>, placeAsk |-> NoDay, emails |-> {},
     tracker |-> "skip"]

\* lines 194-200
Init ==
    /\ trades_today = 0
    /\ last_trade_day = NoDay
    /\ cooldown = 0
    /\ last_bar_time = NoTime
    /\ in_trade = FALSE
    /\ last_signal = "None"
    /\ last_risk = NoRisk
    /\ broker = NoPosition
    /\ ev = Idle("init", NoTime, NoQuote)
    /\ bars_since = COOLDOWN_BARS
    /\ running = TRUE

\* The last bar of a day within the horizon.
LastSlot(day, maxSlot) == IF day = 0 THEN maxSlot ELSE MaxSlotShort

\* The timestamps the latest entry-timeframe bar of a fetch can have: bars
\* only get newer, so it is the bar processed last, the next bar of that day
\* or the first bar of the next day.
Fetchable(last, maxSlot) ==
    IF last = NoTime
    THEN {[day |-> 0, slot |-> 0]}
    ELSE {last}
         \cup (IF last.slot < LastSlot(last.day, maxSlot)
               THEN {[day |-> last.day, slot |-> last.slot + 1]} ELSE {})
         \cup (IF last.day < MaxDay
               THEN {[day |-> last.day + 1, slot |-> 0]} ELSE {})

\* ------------------------------------------------------------ one iteration
\* Mutant of AfterOrder: a successful order does not start the cooldown.
AfterOrderNoCooldown(s, take, side, b, o) ==
    IF take /\ PlaceOrderSuccess(s.brk, side, o)
    THEN [tt |-> s.tt + 1, cd |-> s.cd, it |-> TRUE, sig |-> side,
          risk |-> RiskOf(side, b), brk |-> BrokerAfterOrder(s.brk, side, o)]
    ELSE s

\* Mutant of AfterOrder: the attempt is counted, not the success.
AfterOrderCountsAttempt(s, take, side, b, o) ==
    IF take /\ PlaceOrderSuccess(s.brk, side, o)
    THEN [tt |-> s.tt + 1, cd |-> COOLDOWN_BARS, it |-> TRUE, sig |-> side,
          risk |-> RiskOf(side, b), brk |-> BrokerAfterOrder(s.brk, side, o)]
    ELSE IF take THEN [s EXCEPT !.tt = s.tt + 1] ELSE s

\* The local state after the if / elif branch for `side` (lines 273-291).
AfterOrder(s, take, side, b, o) ==
    IF take /\ PlaceOrderSuccess(s.brk, side, o)
    THEN [tt |-> s.tt + 1, cd |-> COOLDOWN_BARS, it |-> TRUE, sig |-> side,
          risk |-> RiskOf(side, b), brk |-> BrokerAfterOrder(s.brk, side, o)]
    ELSE s

\* What the brokerage answers the tracker (lines 295, 300, 305): the position
\* query fails, or it succeeds and a close request succeeds or fails.
\* get_position raises when there is no position.
TrackerOutcomes(s, q) ==
    IF ~s.it THEN {"skip"}
    ELSE IF s.brk.qty = 0 THEN {"posfail"}
    ELSE LET price == ExitPrice(s.sig, q)
         IN  IF StopHit(s.sig, price, s.brk.entry, s.risk)
                \/ TargetHit(s.sig, price, s.brk.entry, s.risk)
             THEN {"posfail", "closeok", "closefail"}
             ELSE {"posfail", "hold"}

\* Mutant of AfterTracker: a close request that fails leaves the tracker Open.
AfterTrackerOpenOnFailure(s, t) ==
    CASE t = "skip" -> s
      [] t = "posfail" -> [s EXCEPT !.it = FALSE]
      [] t = "hold" -> s
      [] t = "closeok" -> [s EXCEPT !.it = FALSE, !.brk = NoPosition]
      [] t = "closefail" -> s

\* lines 293-309
AfterTracker(s, t) ==
    CASE t = "skip" -> s
      [] t = "posfail" -> [s EXCEPT !.it = FALSE]
      [] t = "hold" -> s
      [] t = "closeok" -> [s EXCEPT !.it = FALSE, !.brk = NoPosition]
      [] t = "closefail" -> [s EXCEPT !.it = FALSE]

\* lines 207-211: a fetch fails or history is too short; sleep and retry.
CycleFetchFail(P) ==
    /\ running
    /\ \E x \in P.fetches :
          /\ Insufficient(x[1], x[2])
          /\ ev' = [Idle("fetchfail", NoTime, NoQuote) EXCEPT !.lens = x]
    /\ UNCHANGED <<trades_today, last_trade_day, cooldown, last_bar_time, in_trade,
                   last_signal, last_risk, broker, bars_since, running>>

\* The quotes an iteration can meet.  With no position tracked nothing reads
\* the quote (line 262 fetches it, lines 274 and 284 print it), so it is left out.
QuotesRead(inTrade, quotes) == IF inTrade THEN quotes ELSE {NoQuote}

\* lines 213-216: the latest bar is the one processed last; sleep and retry.
\* The quote is the market's at that moment: this path does not fetch it.
CycleSameBar(P) ==
    /\ running
    /\ \E x \in P.fetches,
          bar_time \in Fetchable(last_bar_time, P.maxSlot),
          q \in QuotesRead(in_trade, P.quotes) :
          /\ ~Insufficient(x[1], x[2])
          /\ IsSameBar(last_bar_time, bar_time)
          /\ ev' = [Idle("samebar", bar_time, q) EXCEPT !.lens = x]
    /\ UNCHANGED <<trades_today, last_trade_day, cooldown, last_bar_time, in_trade,
                   last_signal, last_risk, broker, bars_since, running>>

\* lines 217-312: a new bar.
CycleNewBar(P) ==
    /\ running
    /\ \E x \in P.fetches,
          bar_time \in Fetchable(last_bar_time, P.maxSlot) :
        /\ ~Insufficient(x[1], x[2])
        /\ ~IsSameBar(last_bar_time, bar_time)
        /\ \E newDay \in {IsNewDay(last_trade_day, bar_time)} :
           \E tt0 \in {TradesAfterReset(newDay, trades_today)},
              cd0 \in {CooldownAfterReset(newDay, cooldown)} :
           \E b \in P.bars :
           \E buy \in {LongSignal(b, cd0, tt0, in_trade)} :
           \E o1 \in OrderOutcomes(buy, P.fills, P.asks) :
           \E s1 \in {AfterOrder([tt |-> tt0, cd |-> cd0, it |-> in_trade,
                                  sig |-> last_signal, risk |-> last_risk,
                                  brk |-> broker], buy, "BUY", b, o1)} :
           \E sell \in {~buy /\ ShortSignal(b, cd0, tt0, s1.it)} :
           \E o2 \in OrderOutcomes(sell, P.fills, P.asks) :
           \E s2 \in {AfterOrder(s1, sell, "SELL", b, o2)} :
           \E q \in QuotesRead(s2.it, P.quotes) :
           \E t \in TrackerOutcomes(s2, q) :
           \E s3 \in {AfterTracker(s2, t)} :
              /\ last_bar_time' = bar_time
              /\ last_trade_day' = IF newDay THEN Date(bar_time) ELSE last_trade_day
              /\ trades_today' = s3.tt
              /\ cooldown' = CooldownTick(s3.cd)
              /\ in_trade' = s3.it
              /\ last_signal' = s3.sig
              /\ last_risk' = s3.risk
              /\ broker' = s3.brk
              /\ bars_since' = IF s2.tt # tt0 THEN 0
                                ELSE IF newDay \/ bars_since >= COOLDOWN_BARS
                                     THEN COOLDOWN_BARS
                                     ELSE bars_since + 1
              /\ running' = running
              /\ ev' = [kind |-> "newbar", bar_time |-> bar_time,
                        buy |-> buy, sell |-> sell,
                        cdBefore |-> cooldown, ttBefore |-> trades_today,
                        cdSet |-> s2.cd,
                        submitted |-> Submitted(o1) \/ Submitted(o2),
                        success |-> \/ buy /\ PlaceOrderSuccess(broker, "BUY", o1)
                                    \/ sell /\ PlaceOrderSuccess(s1.brk, "SELL", o2),
                        posRead |-> t \in {"hold", "closeok", "closefail"},
                        entry |-> IF t \in {"hold", "closeok", "closefail"}
                                  THEN s2.brk.entry ELSE 0,
                        closeReq |-> t \in {"closeok", "closefail"},
                        cd |-> cd0, tt |-> tt0, inTrade |-> in_trade,
                        newDay |-> newDay, bar |-> b, quote |-> q,
                        lens |-> x,
                        placeAsk |-> IF buy THEN o1.ask ELSE o2.ask,
                        emails |-> OrderEmails(broker, "BUY", o1)
                                   \cup OrderEmails(s1.brk, "SELL", o2),
                        tracker |-> t]

\* lines 213, 224-271 and 314-315: an exception is raised while the latest
\* bar's timestamp is read (before line 217), or while the indicators of a new
\* bar are computed and reported (after the day reset of lines 219-222); the
\* handler of the loop prints it and the loop goes on if it catches it.
CycleError(P) ==
    /\ running
    /\ \E x \in P.fetches,
          bar_time \in Fetchable(last_bar_time, P.maxSlot),
          caught \in {CaughtByLoop(exc) : exc \in Raised},
          early \in P.early :
        /\ ~Insufficient(x[1], x[2])
        /\ early \/ ~IsSameBar(last_bar_time, bar_time)
        /\ \E newDay \in {~early /\ IsNewDay(last_trade_day, bar_time)} :
              /\ last_bar_time' = IF early THEN last_bar_time ELSE bar_time
              /\ last_trade_day' = IF newDay THEN Date(bar_time) ELSE last_trade_day
              /\ trades_today' = TradesAfterReset(newDay, trades_today)
              /\ cooldown' = CooldownAfterReset(newDay, cooldown)
              /\ bars_since' = IF newDay THEN COOLDOWN_BARS ELSE bars_since
              /\ ev' = [Idle("error", bar_time, NoQuote) EXCEPT
                           !.lens = x, !.newDay = newDay,
                           !.cdBefore = cooldown, !.ttBefore = trades_today]
        /\ running' = caught
    /\ UNCHANGED <<in_trade, last_signal, last_risk, broker>>

Cycle(P) == CycleFetchFail(P) \/ CycleSameBar(P) \/ CycleNewBar(P) \/ CycleError(P)

\* A full trading day of bars with the coarse inputs.
Next == Cycle(DayProfile)
Spec == Init /\ [][Next]_vars

\* Two short days with every combination of the signal's conditions.
NextSignal == Cycle(SignalProfile)
SpecSignal == Init /\ [][NextSignal]_vars

\* Two short days with a range of exit quotes and two fill prices.
NextExit == Cycle(ExitProfile)
SpecExit == Init /\ [][NextExit]_vars

\* ------------------------------------------------------------ reference predicates
\* The decision predicates as the specification words them (section 4.2),
\* over the inputs an iteration recorded in ev.
RefBodyFraction5(b) == 5 * Abs(b.close - b.open) > (b.high - b.low)
RefBullishCandle(b) == b.close > b.open /\ (RefBodyFraction5(b) \/ ~USE_BODY_FILTER)
RefBearishCandle(b) == b.close < b.open /\ (RefBodyFraction5(b) \/ ~USE_BODY_FILTER)
RefVolumeConfirmed(b) == 20 * b.vol >= 21 * b.vol_prev \/ ~USE_VOLUME_FILTER
RefTrendUp(b) == ~USE_EMA_FILTER \/ (b.ema_f > b.ema_s /\ b.close > b.vwap)
RefTrendDown(b) == ~USE_EMA_FILTER \/ (b.ema_f < b.ema_s /\ b.close < b.vwap)
RefEntryGate(e) == e.cd = 0 /\ e.tt < MAX_TRADES_PER_DAY /\ ~e.inTrade
RefLong(e) ==
    /\ RefEntryGate(e) /\ e.bar.htf_close > e.bar.htf_open
    /\ RefTrendUp(e.bar) /\ RefBullishCandle(e.bar) /\ RefVolumeConfirmed(e.bar)
RefShort(e) ==
    /\ RefEntryGate(e) /\ e.bar.htf_close < e.bar.htf_open
    /\ RefTrendDown(e.bar) /\ RefBearishCandle(e.bar) /\ RefVolumeConfirmed(e.bar)

\* The exit rule of section 4.4 for exit price p, entry price e and risk
\* distance r, with the risk:reward ratio 5/2.
RefStop(signal, p, e, r) ==
    (signal = "BUY" /\ p <= e - r) \/ (signal = "SELL" /\ p >= e + r)
RefTarget(signal, p, e, r) ==
    \/ signal = "BUY" /\ 2 * p >= 2 * e + 5 * r
    \/ signal = "SELL" /\ 2 * p <= 2 * e - 5 * r
RefExitPrice(signal, q) == IF signal = "BUY" THEN q.bid ELSE q.ask

\* ------------------------------------------------------------ claims

\* C1: at most one position is open at a time: run_strategy never submits a
\* market order while a position opened by an earlier order is still open at
\* the brokerage.  (Fails: after a failed close request or position query the
\* tracker is Flat while the brokerage still holds the position.)
C1_NoOrderWhilePositionOpen == [][ev'.submitted => broker.qty = 0]_vars

\* C2: on every new-bar iteration a BUY order is attempted iff cooldown = 0,
\* trades_today < MAX_TRADES_PER_DAY, no position is tracked, and the higher
\* timeframe is bullish, trendUp, bullishCandle and volumeConfirmed hold; a
\* SELL order iff the mirrored conjunction holds; otherwise no order.
C2_EntryDecisionIsReference ==
    ev.kind = "newbar" =>
        /\ ev.buy <=> RefLong(ev)
        /\ ev.sell <=> RefShort(ev)
        /\ ev.submitted => (ev.buy \/ ev.sell)

\* A SELL order went through on a bar where the mirrored conjunction holds.
C2_Witness ==
    ev.kind = "newbar" /\ ev.sell /\ ev.success /\ RefShort(ev) /\ ~RefLong(ev)

\* C3: in no iteration are both a BUY and a SELL attempted; a BUY is never
\* attempted when the higher-timeframe bar has close <= open, a SELL never
\* when it has close >= open.
C3_BiasBindsDirection ==
    ev.kind = "newbar" =>
        /\ ~(ev.buy /\ ev.sell)
        /\ ev.buy => ~(ev.bar.htf_close <= ev.bar.htf_open)
        /\ ev.sell => ~(ev.bar.htf_close >= ev.bar.htf_open)

\* The gate is open, the candle is bullish and the trend is up, but the
\* higher-timeframe bar closed below its open: no BUY.
C3_Witness ==
    /\ ev.kind = "newbar" /\ RefEntryGate(ev)
    /\ RefBullishCandle(ev.bar) /\ RefTrendUp(ev.bar) /\ RefVolumeConfirmed(ev.bar)
    /\ ev.bar.htf_close < ev.bar.htf_open
    /\ ~ev.buy /\ ~ev.sell

\* C4: trades_today is always in 0..MAX_TRADES_PER_DAY, and in an iteration
\* that finds trades_today = MAX_TRADES_PER_DAY no order is attempted,
\* whatever the indicator and bias conditions are.
C4_DailyCap ==
    /\ trades_today \in 0..MAX_TRADES_PER_DAY
    /\ (ev.kind = "newbar" /\ ev.tt = MAX_TRADES_PER_DAY) => (~ev.buy /\ ~ev.sell)

\* The tenth trade of the day is done and its cooldown is over; a bar on which
\* every long condition holds brings no order.
C4_Witness ==
    /\ ev.kind = "newbar" /\ ev.tt = MAX_TRADES_PER_DAY /\ ev.cd = 0 /\ ~ev.inTrade
    /\ ev.bar = BullBar /\ ~ev.buy /\ ~ev.sell

\* C5: a poll whose latest bar timestamp equals the last processed timestamp
\* leaves trades_today, cooldown and last_trade_day unchanged and attempts no
\* order; the signal is evaluated at most once per bar timestamp.
C5_RedundantPollChangesNothing ==
    [][ /\ (ev'.bar_time # NoTime /\ ev'.bar_time = last_bar_time) =>
              /\ trades_today' = trades_today
              /\ cooldown' = cooldown
              /\ last_trade_day' = last_trade_day
              /\ ~ev'.buy /\ ~ev'.sell
        /\ ev'.kind = "newbar" => ev'.bar_time # last_bar_time ]_vars

\* A redundant poll while a cooldown is running.
C5_Witness ==
    ev.kind = "samebar" /\ ev.bar_time = last_bar_time /\ cooldown > 0

\* C6: while a position is open the exit check runs on every iteration: on a
\* poll whose latest-bar timestamp is unchanged, the stop and target
\* conditions are evaluated against the live quote and a close is requested
\* if one is met.  (Fails: line 216 continues before the tracker.)
C6_ExitCheckedOnEveryPoll ==
    ( /\ ev.kind = "samebar" /\ in_trade /\ broker.qty # 0
      /\ LET p == RefExitPrice(last_signal, ev.quote)
         IN  \/ RefStop(last_signal, p, broker.entry, last_risk)
             \/ RefTarget(last_signal, p, broker.entry, last_risk) )
    => ev.closeReq

\* C7: when a new bar's date differs from the stored trading day,
\* trades_today and cooldown are both 0 when the entry gate is evaluated and
\* the stored day is the bar's; when the date is the same, nothing is reset.
C7_DayRollover ==
    [][ ev'.kind = "newbar" =>
          IF last_trade_day # Date(ev'.bar_time)
          THEN ev'.tt = 0 /\ ev'.cd = 0 /\ last_trade_day' = Date(ev'.bar_time)
          ELSE /\ ev'.tt = trades_today /\ ev'.cd = cooldown
               /\ last_trade_day' = last_trade_day ]_vars

\* The day rolls over in mid-cooldown with the daily maximum reached, and the
\* first bar of the new day brings an order.
C7_Witness ==
    /\ ev.kind = "newbar" /\ ev.newDay
    /\ ev.cdBefore > 0 /\ ev.ttBefore = MAX_TRADES_PER_DAY
    /\ ev.cd = 0 /\ ev.tt = 0 /\ ev.success /\ trades_today = 1

\* C8: a successful order placement increments trades_today by exactly 1 and
\* sets cooldown to COOLDOWN_BARS (line 278, 288); the tick that ends the
\* same iteration (lines 311-312) then leaves COOLDOWN_BARS - 1.
C8_PlacementSetsThrottle ==
    (ev.kind = "newbar" /\ ev.success) =>
        /\ trades_today = ev.tt + 1
        /\ ev.cdSet = COOLDOWN_BARS
        /\ cooldown = COOLDOWN_BARS - 1

\* An order succeeded on a day that already had one.
C8_Witness == ev.kind = "newbar" /\ ev.success /\ ev.tt = 1 /\ trades_today = 2

\* C9: within one trading day, if an order succeeds on the k-th processed
\* bar, the next order can be attempted no earlier than on the
\* (k + COOLDOWN_BARS)-th processed bar.
C9_CooldownBars ==
    [][ (ev'.kind = "newbar" /\ (ev'.buy \/ ev'.sell) /\ ~ev'.newDay)
            => bars_since + 1 >= COOLDOWN_BARS ]_vars

\* The day's second order succeeds exactly COOLDOWN_BARS bars after the first.
C9_Witness ==
    /\ ev.kind = "newbar" /\ ev.success /\ trades_today = 2
    /\ last_bar_time = [day |-> 0, slot |-> COOLDOWN_BARS]

\* C10: with entry price E read from the brokerage, risk distance R > 0 and
\* exit price P (bid for a Long, ask for a Short) the tracker requests a close
\* exactly when the stop or the target condition holds, and otherwise the
\* position stays open; Long E=50000, R=500: 49500 and 51250 close, 50200
\* does not.
C10_ExitRule ==
    /\ (ev.kind = "newbar" /\ ev.posRead /\ last_risk > 0) =>
          LET p == RefExitPrice(last_signal, ev.quote)
          IN  /\ ev.closeReq <=> ( \/ RefStop(last_signal, p, ev.entry, last_risk)
                                   \/ RefTarget(last_signal, p, ev.entry, last_risk) )
              /\ ~ev.closeReq => in_trade
    /\ StopHit("BUY", 49500, 50000, 500)
    /\ TargetHit("BUY", 51250, 50000, 500)
    /\ ~StopHit("BUY", 50200, 50000, 500) /\ ~TargetHit("BUY", 50200, 50000, 500)

\* A Long is closed at its target, with the bid above the entry price.
C10_Witness ==
    /\ ev.kind = "newbar" /\ ev.posRead /\ last_risk > 0 /\ last_signal = "BUY"
    /\ ev.closeReq /\ ev.quote.bid > ev.entry /\ ~in_trade

\* C11: the tracker is never stuck Open by a failure of the brokerage: when
\* the stop or the target condition is met the tracker is Flat at the end of
\* that iteration whether the close request succeeded or failed, and when the
\* position query fails the tracker is Flat at the end of that iteration.
C11_TrackerNeverStuckOpen ==
    ev.kind = "newbar" =>
        /\ ev.tracker = "posfail" => ~in_trade
        /\ ev.tracker \in {"closeok", "closefail"} => ~in_trade
        /\ ( /\ ev.posRead
             /\ LET p == RefExitPrice(last_signal, ev.quote)
                IN  \/ RefStop(last_signal, p, ev.entry, last_risk)
                    \/ RefTarget(last_signal, p, ev.entry, last_risk) )
           => ev.closeReq /\ ~in_trade

\* A close request failed: the brokerage still holds the position and the
\* tracker is Flat.
C11_Witness ==
    /\ ev.kind = "newbar" /\ ev.tracker = "closefail"
    /\ broker.qty # 0 /\ ~in_trade

\* C12: when an order submission fails (the brokerage rejects the order or is
\* unreachable) nothing changes: trades_today, cooldown, the open-position
\* flag, the recorded direction and the recorded risk distance end the
\* iteration with the values they had before the attempt, and the loop goes on.
C12_FailedSubmissionChangesNothing ==
    [][ (ev'.kind = "newbar" /\ ev'.submitted /\ ~ev'.success) =>
            /\ trades_today' = ev'.tt
            /\ cooldown' = ev'.cd
            /\ in_trade' = ev'.inTrade /\ in_trade' = in_trade
            /\ last_signal' = last_signal
            /\ last_risk' = last_risk
            /\ broker' = broker
            /\ running' ]_vars

\* A submitted order failed after an earlier position was recorded and
\* closed: its direction and risk distance are still the recorded ones.
C12_Witness ==
    /\ ev.kind = "newbar" /\ ev.submitted /\ ~ev.success
    /\ trades_today = ev.tt /\ cooldown = 0 /\ ~in_trade
    /\ last_signal # "None" /\ last_risk > 0

\* C13: every failed order submission is followed, in the same iteration, by
\* a failure notification.
C13_FailedSubmissionNotified ==
    (ev.kind = "newbar" /\ ev.submitted /\ ~ev.success) => ev.emails # {}

\* C14: when the quote place_order fetches is the failure value (ask 0), no
\* order is submitted, for a BUY or for a SELL, place_order reports failure,
\* and the throttle, the tracker and the brokerage's position are unchanged.
C14_ZeroQuoteShortCircuits ==
    [][ (ev'.kind = "newbar" /\ (ev'.buy \/ ev'.sell)
         /\ ev'.placeAsk = FailedQuote.ask) =>
            /\ ~ev'.submitted /\ ~ev'.success
            /\ broker' = broker
            /\ trades_today' = ev'.tt
            /\ cooldown' = ev'.cd
            /\ in_trade' = in_trade /\ ~in_trade'
            /\ last_signal' = last_signal
            /\ last_risk' = last_risk ]_vars

\* A short signal met the failure value and nothing was sent.
C14_Witness ==
    /\ ev.kind = "newbar" /\ ev.sell /\ ev.placeAsk = FailedQuote.ask
    /\ ~ev.submitted /\ ~in_trade /\ cooldown = 0 /\ broker = NoPosition

\* C15: no failure makes the loop terminate: after a failed fetch, a failed
\* quote, a failed order, a failed position query or close request, or an
\* exception raised inside the iteration, the loop is at the start of a next
\* iteration.
C15_LoopNeverLeft ==
    /\ running
    /\ ev.kind \in {"init", "fetchfail", "samebar", "newbar", "error"}

\* An exception was raised in an iteration that had a position to track, after
\* the day reset, and the loop goes on.
C15_Witness ==
    /\ ev.kind = "error" /\ ev.newDay /\ ev.bar_time = last_bar_time
    /\ in_trade /\ running

\* A fetch failed (length 0 stands for None) or a series is too short.
RefFetchFailed(lens) ==
    lens[1] = 0 \/ lens[2] = 0 \/ lens[1] < 50 \/ lens[2] < 10

\* C16: an iteration whose bar fetch fails, or returns fewer than 50
\* entry-timeframe bars or fewer than 10 higher-timeframe bars, changes
\* nothing: the last processed bar timestamp, trades_today, cooldown, the
\* stored day and the tracker are unchanged and no order or close request is
\* sent; a new bar met by the next successful fetch is processed as new.
C16_FailedFetchChangesNothing ==
    [][ /\ RefFetchFailed(ev'.lens) =>
            /\ UNCHANGED <<last_bar_time, trades_today, cooldown, last_trade_day,
                           in_trade, last_signal, last_risk, broker>>
            /\ ~ev'.submitted /\ ~ev'.closeReq /\ ev'.emails = {}
        /\ (ev.kind = "fetchfail" /\ ev'.kind = "newbar") =>
            /\ ev'.bar_time # last_bar_time
            /\ last_bar_time' = ev'.bar_time ]_vars

\* Enough entry-timeframe bars but too few higher-timeframe bars, with a
\* position tracked and a bar already processed.
C16_Witness ==
    /\ ev.kind = "fetchfail" /\ ev.lens = <<50, 9>>
    /\ in_trade /\ last_bar_time # NoTime /\ cooldown > 0

\* C17: in an iteration that tracks a position and whose live quote is the
\* failure value, the exit decision is skipped: no close request is sent and
\* the tracker stays Open (stated for iterations whose position query succeeded).
C17_FailedQuoteSkipsExit ==
    (ev.kind = "newbar" /\ ev.posRead /\ ev.quote = FailedQuote) =>
        ~ev.closeReq /\ in_trade

\* C18: a signal whose risk distance is not positive is suppressed: no BUY is
\* attempted when sl_long >= close and no SELL when sl_short <= close, so a
\* stored risk distance is always strictly positive.
C18_NonPositiveRiskSuppressed ==
    /\ ev.kind = "newbar" =>
          /\ ev.buy => SlLong(ev.bar) < ev.bar.close
          /\ ev.sell => SlShort(ev.bar) > ev.bar.close
    /\ in_trade => last_risk > 0

\* The stop-loss level of the side that was opened.
RefStopLoss(signal, b) == IF signal = "BUY" THEN SlLong(b) ELSE SlShort(b)

\* C19: the risk distance stored when a position is opened equals
\* |entryPrice - stopLoss| at that time, entryPrice being the position's entry
\* price the tracker later compares against (the brokerage's average entry
\* price), stopLoss the stop-loss level of the opened side.
C19_RiskIsEntryToStop ==
    (ev.kind = "newbar" /\ ev.success /\ ev.posRead) =>
        last_risk = Abs(ev.entry - RefStopLoss(last_signal, ev.bar))

\* C20: between iterations cooldown is in 0..COOLDOWN_BARS, and a running
\* cooldown means an order was placed that day: cooldown > 0 implies
\* trades_today >= 1.
C20_CooldownMeansTradeToday ==
    /\ cooldown \in 0..COOLDOWN_BARS
    /\ cooldown > 0 => trades_today >= 1

\* The first bar of a new day arrives while the cooldown of the day before is
\* running; both counters are cleared and an order placed on that bar starts
\* a new cooldown.
C20_Witness ==
    /\ ev.kind = "newbar" /\ ev.newDay /\ ev.cdBefore > 0 /\ ev.ttBefore > 0
    /\ ev.cd = 0 /\ ev.tt = 0 /\ ev.success
    /\ cooldown > 0 /\ trades_today = 1

=============================================================================
